---- MODULE Spec2Model ----
(***************************************************************************)
(* LIPA-360: the upload -> process_data -> dashboard -> email script of    *)
(* src/app.py and the dashboard views of src/visualizations.py.            *)
(*                                                                         *)
(* Text cells are sequences of one-character strings, so that startswith,  *)
(* substring search, slicing and case folding are computed, not assumed.   *)
(* A DataFrame is a record [kind, columns, rows, origin]: columns is the   *)
(* column order, rows the sequence of rows (functions from column name to  *)
(* cell), origin the position in the uploaded sheet each row came from     *)
(* (the pandas index label before reset_index; it is not a column and is   *)
(* never written to a workbook).                                           *)
(***************************************************************************)
EXTENDS Integers, Sequences, FiniteSets, TLC

\* Largest number of data rows in an uploaded sheet.
MaxRows == 3

-----------------------------------------------------------------------------
(* Cells *)

\* A missing cell as read_excel(dtype=str) yields it (float nan).
NaN == <<"NaN">>
\* Python None, as clean_lipa returns it.
None == <<"None">>
\* pandas NaT: the missing timestamp.
NaT == <<0, 0, 0>>
\* The missing value of the float column Day.
NaNDay == [nan |-> TRUE, days |-> 0]

notna(x) == x # NaN /\ x # None

\* str(x) / Series.astype(str) on an object column: missing values become
\* text ("nan", "None").
astype_str(x) ==
  IF x = NaN THEN <<"n", "a", "n">>
  ELSE IF x = None THEN <<"N", "o", "n", "e">>
  ELSE x

\* Python `p in s` on text.
Contains(s, p) ==
  \E i \in 0..(Len(s) - Len(p)) : SubSeq(s, i + 1, i + Len(p)) = p

\* str.startswith
startswith(s, p) == Len(s) >= Len(p) /\ SubSeq(s, 1, Len(p)) = p

UpperCase == <<"A","B","C","D","E","F","G","H","I","J","K","L","M",
               "N","O","P","Q","R","S","T","U","V","W","X","Y","Z">>
LowerCase == <<"a","b","c","d","e","f","g","h","i","j","k","l","m",
               "n","o","p","q","r","s","t","u","v","w","x","y","z">>

LowerChar(c) ==
  IF \E k \in 1..26 : UpperCase[k] = c
  THEN LowerCase[CHOOSE k \in 1..26 : UpperCase[k] = c]
  ELSE c

\* Case folding, as the case=False regular expression match applies it.
Lower(s) == [i \in 1..Len(s) |-> LowerChar(s[i])]

\* Literals of the source
GSS_Classic == <<"G","S","S"," ","C","l","a","s","s","i","c">>
GSS_classic == <<"G","S","S"," ","c","l","a","s","s","i","c">>
EmptyStr == <<>>
closed == <<"c","l","o","s","e","d">>
completed == <<"c","o","m","p","l","e","t","e","d">>

-----------------------------------------------------------------------------
(* Dates *)

Digits == <<"0","1","2","3","4","5","6","7","8","9">>
IsDigit(c) == \E k \in 1..10 : Digits[k] = c
DigitVal(c) == (CHOOSE k \in 1..10 : Digits[k] = c) - 1

IsLeap(y) == (y % 4 = 0 /\ y % 100 # 0) \/ y % 400 = 0

DaysInMonth(y, m) ==
  IF m = 2 THEN (IF IsLeap(y) THEN 29 ELSE 28)
  ELSE IF m \in {4, 6, 9, 11} THEN 30 ELSE 31

\* pd.to_datetime(..., errors='coerce') on one text cell: an ISO date
\* YYYY-MM-DD parses, anything else (missing, free text, an impossible
\* calendar date) becomes NaT instead of raising.
to_datetime(cell) ==
  IF cell = NaN \/ Len(cell) # 10 THEN NaT
  ELSE IF ~(cell[5] = "-" /\ cell[8] = "-"
            /\ \A i \in {1, 2, 3, 4, 6, 7, 9, 10} : IsDigit(cell[i])) THEN NaT
  ELSE LET y == 1000 * DigitVal(cell[1]) + 100 * DigitVal(cell[2])
                + 10 * DigitVal(cell[3]) + DigitVal(cell[4])
           m == 10 * DigitVal(cell[6]) + DigitVal(cell[7])
           d == 10 * DigitVal(cell[9]) + DigitVal(cell[10])
       IN IF m \in 1..12 /\ y >= 1 /\ d >= 1 /\ d <= DaysInMonth(y, m)
          THEN <<y, m, d>> ELSE NaT

\* Days from 0001-01-01 to the date (proleptic Gregorian ordinal).
DaysBeforeYear(y) ==
  LET p == y - 1 IN 365 * p + (p \div 4) - (p \div 100) + (p \div 400)

RECURSIVE DaysBeforeMonth(_, _)
DaysBeforeMonth(y, m) ==
  IF m = 1 THEN 0 ELSE DaysBeforeMonth(y, m - 1) + DaysInMonth(y, m - 1)

toordinal(date) == DaysBeforeYear(date[1]) + DaysBeforeMonth(date[1], date[2]) + date[3]

\* (df['Today'] - df['LIPA Created On']).dt.days for one row.  The views
\* read the clock again (datetime.now()); a run is taken to stay within
\* one day, so both reads give the variable today.
DayOf(tdy, created) ==
  IF created = NaT THEN NaNDay
  ELSE [nan |-> FALSE, days |-> toordinal(tdy) - toordinal(created)]

\* Series comparison `Day > n`: False on a missing value.
DayGT(day, n) == ~day.nan /\ day.days > n

-----------------------------------------------------------------------------
(* Columns and frames *)

CreatedOn == "LIPA Created On"
CombinedStatus == "Combined Status"
ExtDlvID == "LIPA EX33 FZ / ExtDlvID"
ReasonCode == "Reason code desc."
DeliveryNo == "LIPA No. / Delivery"
ProcessStatus == "Process status"
CustomerRef == "Customer Ref. Ord.No."
MaterialNumber == "Material number"
MaterialDescription == "Material Description"
DeliveryQuantity == "Delivery Quantity"
ModelSeries == "Model series"

\* The columns of a conforming sheet, in sheet order.
SheetCols == <<CreatedOn, CombinedStatus, ExtDlvID, ReasonCode, DeliveryNo,
               ProcessStatus, CustomerRef, MaterialNumber, MaterialDescription,
               DeliveryQuantity, ModelSeries>>

required_cols == <<ExtDlvID, CreatedOn, "Day", DeliveryNo, ProcessStatus,
                   ReasonCode, CustomerRef, MaterialNumber, MaterialDescription,
                   DeliveryQuantity, ModelSeries>>

Range(s) == {s[i] : i \in 1..Len(s)}

DataFrame(cols, rws, org) ==
  [kind |-> "DataFrame", columns |-> cols, rows |-> rws, origin |-> org]

\* pd.DataFrame(): no columns, no rows.
EmptyDataFrame == DataFrame(<<>>, <<>>, <<>>)

\* A name not yet bound by the script, the value None, and a text value.
Unbound == [kind |-> "unbound"]
NoneValue == [kind |-> "None"]
Str(t) == [kind |-> "str", text |-> t]

\* DataFrame.empty
empty(df) == Len(df.rows) = 0 \/ Len(df.columns) = 0

\* df[c] = values: a new column goes last, an existing one is overwritten.
SetColumn(df, c, values) ==
  [df EXCEPT
     !.columns = IF c \in Range(df.columns) THEN @ ELSE Append(@, c),
     !.rows = [i \in 1..Len(df.rows) |->
                 [k \in DOMAIN df.rows[i] \cup {c} |->
                    IF k = c THEN values[i] ELSE df.rows[i][k]]]]

\* df[cols]: the projection (the caller has checked the columns exist).
Project(df, cols) ==
  [df EXCEPT
     !.columns = cols,
     !.rows = [i \in 1..Len(df.rows) |-> [k \in Range(cols) |-> df.rows[i][k]]]]

\* The positions among the first n where the boolean mask holds, increasing.
RECURSIVE PositionsUpTo(_, _)
PositionsUpTo(mask, n) ==
  IF n = 0 THEN <<>>
  ELSE IF mask[n] THEN Append(PositionsUpTo(mask, n - 1), n)
  ELSE PositionsUpTo(mask, n - 1)

Positions(mask) == PositionsUpTo(mask, Len(mask))

\* df[mask]: the rows at the given positions, in that order.
Take(df, pos) ==
  [df EXCEPT
     !.rows = [i \in 1..Len(pos) |-> df.rows[pos[i]]],
     !.origin = [i \in 1..Len(pos) |-> df.origin[pos[i]]]]

-----------------------------------------------------------------------------
(* process_data *)

\* row.get(c)
get(row, c) == IF c \in DOMAIN row THEN row[c] ELSE None

clean_lipa(row) ==
  IF notna(get(row, CombinedStatus))
     /\ Contains(astype_str(row[CombinedStatus]), GSS_Classic)
  THEN GSS_classic
  ELSE IF notna(get(row, ExtDlvID)) THEN astype_str(get(row, ExtDlvID))
  ELSE None

\* .astype(str).str.startswith('7').map({True: 'USA', False: 'Germany'})
RegionOf(extid) ==
  IF startswith(astype_str(extid), <<"7">>) THEN "USA" ELSE "Germany"

\* .fillna("").replace("", "GSS classic")
FillReason(reason) ==
  LET filled == IF reason = NaN THEN EmptyStr ELSE reason
  IN IF filled = EmptyStr THEN GSS_classic ELSE filled

\* BlankExtId with the sentinel rows set to None instead of "".
BlankExtIdToNone(reason, extid) == IF reason = GSS_classic THEN None ELSE extid

\* df.loc[df['Reason code desc.'] == 'GSS classic', ExtDlvID] = ""
BlankExtId(reason, extid) == IF reason = GSS_classic THEN EmptyStr ELSE extid

\* AgingFilter with the threshold included (Day >= 10).
AgingFilterInclusive(row) == ~row["Day"].nan /\ row["Day"].days >= 10

\* df[df['Day'] > 10], as a test on one row
AgingFilter(row) == DayGT(row["Day"], 10)

\* The frame read_excel returns for a readable workbook.
read_excel(file) == DataFrame(file.columns, file.rows, [i \in 1..Len(file.rows) |-> i])

\* Classify with the region derived after the sentinel overwrite.
ClassifyRegionLast(df0, tdy) ==
  LET n == Len(df0.rows)
      df1 == SetColumn(df0, CreatedOn,
                       [i \in 1..n |-> to_datetime(df0.rows[i][CreatedOn])])
      df2 == SetColumn(df1, "Today", [i \in 1..n |-> tdy])
      df3 == SetColumn(df2, "Day",
                       [i \in 1..n |-> DayOf(tdy, df2.rows[i][CreatedOn])])
      df4 == SetColumn(df3, ExtDlvID, [i \in 1..n |-> clean_lipa(df3.rows[i])])
      df5 == SetColumn(df4, ReasonCode,
                       [i \in 1..n |-> FillReason(df4.rows[i][ReasonCode])])
      df6 == SetColumn(df5, ExtDlvID,
                       [i \in 1..n |-> BlankExtId(df5.rows[i][ReasonCode],
                                                  df5.rows[i][ExtDlvID])])
  IN SetColumn(df6, "Region", [i \in 1..n |-> RegionOf(df6.rows[i][ExtDlvID])])

\* Lines 55-67: the derived columns, computed in the order of the source.
Classify(df0, tdy) ==
  LET n == Len(df0.rows)
      df1 == SetColumn(df0, CreatedOn,
                       [i \in 1..n |-> to_datetime(df0.rows[i][CreatedOn])])
      df2 == SetColumn(df1, "Today", [i \in 1..n |-> tdy])
      df3 == SetColumn(df2, "Day",
                       [i \in 1..n |-> DayOf(tdy, df2.rows[i][CreatedOn])])
      df4 == SetColumn(df3, ExtDlvID, [i \in 1..n |-> clean_lipa(df3.rows[i])])
      df5 == SetColumn(df4, "Region",
                       [i \in 1..n |-> RegionOf(df4.rows[i][ExtDlvID])])
      df6 == SetColumn(df5, ReasonCode,
                       [i \in 1..n |-> FillReason(df5.rows[i][ReasonCode])])
  IN SetColumn(df6, ExtDlvID,
               [i \in 1..n |-> BlankExtId(df6.rows[i][ReasonCode],
                                          df6.rows[i][ExtDlvID])])

\* The rows of df that pass the aging filter (line 68).
Retained(df) == Take(df, Positions([i \in 1..Len(df.rows) |-> AgingFilter(df.rows[i])]))

\* RegionRows with the mask left out.
RegionRowsUnmasked(df, region) == df

\* df[df['Region'] == region]
RegionRows(df, region) ==
  Take(df, Positions([i \in 1..Len(df.rows) |-> df.rows[i]["Region"] = region]))

\* SortOrders for an ascending sort.
SortOrdersAscending(df) ==
  LET n == Len(df.rows)
  IN {p \in [1..n -> 1..n] :
        /\ \A i, j \in 1..n : i # j => p[i] # p[j]
        /\ \A i \in 1..(n - 1) :
             df.rows[p[i]]["Day"].days <= df.rows[p[i + 1]]["Day"].days}

\* The orders sort_values(by='Day', ascending=False) may produce: its default
\* kind is quicksort, which the library does not promise to be stable, so
\* every arrangement with Day non-increasing is a possible outcome.
SortOrders(df) ==
  LET n == Len(df.rows)
  IN {p \in [1..n -> 1..n] :
        /\ \A i, j \in 1..n : i # j => p[i] # p[j]
        /\ \A i \in 1..(n - 1) :
             df.rows[p[i]]["Day"].days >= df.rows[p[i + 1]]["Day"].days}

\* region_df.insert(0, 'Sr No.', range(1, len(region_df) + 1))
InsertSrNo(df) ==
  [df EXCEPT
     !.columns = <<"Sr No.">> \o @,
     !.rows = [i \in 1..Len(df.rows) |->
                 [k \in DOMAIN df.rows[i] \cup {"Sr No."} |->
                    IF k = "Sr No." THEN i ELSE df.rows[i][k]]]]

\* prepare_df: projection, descending sort, reset_index, sequence numbers.
\* The set of frames it may return.
prepare_df(region_df) ==
  LET proj == Project(region_df, required_cols)
  IN {InsertSrNo(Take(proj, p)) : p \in SortOrders(proj)}

\* What process_data returns.
Success(u, g) == [success |-> TRUE, usa_df |-> u, germany_df |-> g]
Failure(msg) == [success |-> FALSE, usa_df |-> Str(msg), germany_df |-> NoneValue]

\* Lines 83-84 for one region: the frames the conditional expression may
\* yield; none when prepare_df raises for a column the sheet lacks.
Partition(df, region) ==
  IF \E i \in 1..Len(df.rows) : df.rows[i]["Region"] = region
  THEN IF Range(required_cols) \subseteq Range(df.columns)
       THEN prepare_df(RegionRows(df, region))
       ELSE {}
  ELSE {EmptyDataFrame}

\* process_data with the date parse raising on text that is no date
\* (errors='raise') instead of coercing it.
process_data_raise(file, tdy) ==
  IF file.kind # "workbook" THEN {Failure("File is not a zip file")}
  ELSE IF CreatedOn \notin Range(file.columns) THEN {Failure("'LIPA Created On'")}
  ELSE IF \E i \in 1..Len(file.rows) :
            file.rows[i][CreatedOn] # NaN /\ to_datetime(file.rows[i][CreatedOn]) = NaT
       THEN {Failure("Unknown datetime string format")}
  ELSE IF ReasonCode \notin Range(file.columns) THEN {Failure("'Reason code desc.'")}
  ELSE LET df == Retained(Classify(read_excel(file), tdy))
           us == Partition(df, "USA")
           gs == Partition(df, "Germany")
       IN IF us = {} \/ gs = {} THEN {Failure("columns not in index")}
          ELSE {Success(u, g) : u \in us, g \in gs}

\* process_data(uploaded_file): the set of results the call may return.
process_data(file, tdy) ==
  IF file.kind # "workbook" THEN {Failure("File is not a zip file")}
  ELSE IF CreatedOn \notin Range(file.columns) THEN {Failure("'LIPA Created On'")}
  ELSE IF ReasonCode \notin Range(file.columns) THEN {Failure("'Reason code desc.'")}
  ELSE LET df == Retained(Classify(read_excel(file), tdy))
           us == Partition(df, "USA")
           gs == Partition(df, "Germany")
       IN IF us = {} \/ gs = {} THEN {Failure("columns not in index")}
          ELSE {Success(u, g) : u \in us, g \in gs}

-----------------------------------------------------------------------------
(* The dashboard views of visualizations.py.  Each is given the frame the  *)
(* caller holds (Python passes the object, not a copy) and yields the      *)
(* frame as the call leaves it (df) and what it renders (out: no element   *)
(* when it returns early, else one).                                       *)

View(df, out) == [df |-> df, out |-> out]

\* len(df[mask]): the number of rows where the boolean mask holds.
Count(mask) == Cardinality({i \in 1..Len(mask) : mask[i]})

\* The rows of df, to build a mask over.
Index(df) == 1..Len(df.rows)

RECURSIVE SumDays(_, _)
SumDays(df, n) == IF n = 0 THEN 0 ELSE SumDays(df, n - 1) + df.rows[n]["Day"].days

\* .astype(str).str.contains('closed|completed', case=False, na=False)
IsClosed(status) ==
  LET t == Lower(astype_str(status))
  IN Contains(t, closed) \/ Contains(t, completed)

\* Series.dt.month of a timestamp (0 stands for the missing value).
month(date) == date[2]

\* Lines 19-22: the rows counted as closed this month.
ClosedThisMonth(df, now) ==
  Count([i \in Index(df) |->
           /\ month(df.rows[i][CreatedOn]) = month(now)
           /\ IsClosed(df.rows[i][ProcessStatus])])

create_kpi_cards(df, now) ==
  IF empty(df) THEN View(df, <<>>)
  ELSE View(df, <<[total_lipas |-> Len(df.rows),
                   lipas_30_days |-> Count([i \in Index(df) |-> DayGT(df.rows[i]["Day"], 30)]),
                   lipas_60_days |-> Count([i \in Index(df) |-> DayGT(df.rows[i]["Day"], 60)]),
                   closed_this_month |-> ClosedThisMonth(df, now),
                   \* the mean, as the pair (sum, count)
                   avg_aging_days |-> <<SumDays(df, Len(df.rows)), Len(df.rows)>>]>>)

\* .dt.to_period('W').dt.start_time: the Monday of the date's week, as an
\* ordinal (ordinal 1 is a Monday).
WeekStart(date) == toordinal(date) - ((toordinal(date) - 1) % 7)

create_aging_trend(df) ==
  IF empty(df) THEN View(df, <<>>)
  ELSE LET weeks == {WeekStart(df.rows[i][CreatedOn]) : i \in 1..Len(df.rows)}
           InWeek(r, w) == WeekStart(r[CreatedOn]) = w
       IN View(df,   \* the view works on df.copy()
               <<{[Week |-> w,
                   total |-> Count([i \in Index(df) |->
                                      InWeek(df.rows[i], w) /\ notna(df.rows[i][DeliveryNo])]),
                   over_30_days |-> Count([i \in Index(df) |->
                                      InWeek(df.rows[i], w) /\ DayGT(df.rows[i]["Day"], 30)]),
                   over_60_days |-> Count([i \in Index(df) |->
                                      InWeek(df.rows[i], w) /\ DayGT(df.rows[i]["Day"], 60)])]
                  : w \in weeks}>>)

\* pd.cut(df['Day'], bins=[0, 30, 60, 90, inf], labels=..., right=False)
AgeBucket(day) ==
  IF day.nan \/ day.days < 0 THEN "NaN"
  ELSE IF day.days < 30 THEN "0-30 days"
  ELSE IF day.days < 60 THEN "31-60 days"
  ELSE IF day.days < 90 THEN "61-90 days"
  ELSE ">90 days"

\* Line 100: df['Age Bucket'] = pd.cut(...), an assignment into the frame
\* the caller passed.
WithAgeBucket(df) ==
  SetColumn(df, "Age Bucket", [i \in 1..Len(df.rows) |-> AgeBucket(df.rows[i]["Day"])])

create_aging_distribution(df) ==
  IF empty(df) THEN View(df, <<>>)
  ELSE LET d == WithAgeBucket(df)
           pairs == {<<d.rows[i]["Age Bucket"], d.rows[i][ReasonCode]>> : i \in 1..Len(d.rows)}
       IN View(d, <<[pr \in pairs |->
                       Count([i \in Index(d) |->
                          <<d.rows[i]["Age Bucket"], d.rows[i][ReasonCode]>> = pr])]>>)

\* Series.value_counts(): the count of each value present (missing dropped).
value_counts(df, col) ==
  LET vals == {df.rows[i][col] : i \in 1..Len(df.rows)} \ {NaN, None}
  IN [v \in vals |-> Count([i \in Index(df) |-> df.rows[i][col] = v])]

create_reason_distribution(df) ==
  IF empty(df) THEN View(df, <<>>) ELSE View(df, <<value_counts(df, ReasonCode)>>)

create_status_donut(df) ==
  IF empty(df) THEN View(df, <<>>) ELSE View(df, <<value_counts(df, ProcessStatus)>>)

\* Rows shown by the top-aging table.
TopN == 10

TopCols == <<DeliveryNo, CreatedOn, "Day", MaterialNumber, CustomerRef, ReasonCode>>

\* df.nlargest(n, 'Day'): the n rows of largest Day, largest first, equal
\* values in their order of appearance (keep='first').
nlargest(df, n) ==
  LET N == Len(df.rows)
      Before(i, j) == \/ df.rows[i]["Day"].days > df.rows[j]["Day"].days
                      \/ df.rows[i]["Day"].days = df.rows[j]["Day"].days /\ i < j
      Rank(i) == 1 + Cardinality({j \in 1..N : Before(j, i)})
      k == IF N < n THEN N ELSE n
  IN Take(df, [q \in 1..k |-> CHOOSE i \in 1..N : Rank(i) = q])

TwoDigits(n) == <<Digits[((n \div 10) % 10) + 1], Digits[(n % 10) + 1]>>

\* .dt.strftime('%Y-%m-%d')
strftime(date) ==
  IF date = NaT THEN NaN
  ELSE TwoDigits(date[1] \div 100) \o TwoDigits(date[1] % 100) \o <<"-">>
       \o TwoDigits(date[2]) \o <<"-">> \o TwoDigits(date[3])

create_top_aging_table(df) ==
  IF empty(df) THEN View(df, <<>>)
  ELSE LET top == Project(nlargest(df, TopN), TopCols)   \* a new frame
           shown == SetColumn(top, CreatedOn,
                              [i \in 1..Len(top.rows) |-> strftime(top.rows[i][CreatedOn])])
       IN View(df, <<[columns |-> shown.columns, rows |-> shown.rows]>>)

\* .astype(str).str[:4]
ModelPrefix(material) ==
  LET t == astype_str(material) IN SubSeq(t, 1, IF Len(t) < 4 THEN Len(t) ELSE 4)

\* Line 199: df['Model'] = ..., an assignment into the frame the caller passed.
WithModel(df) ==
  SetColumn(df, "Model", [i \in 1..Len(df.rows) |-> ModelPrefix(df.rows[i][MaterialNumber])])

create_heatmap(df) ==
  IF empty(df) THEN View(df, <<>>)
  ELSE LET d == WithModel(df)
           counted == {i \in 1..Len(d.rows) : notna(d.rows[i][DeliveryNo])}
           models == {d.rows[i]["Model"] : i \in counted}
           reasons == {d.rows[i][ReasonCode] : i \in counted}
       IN View(d, <<[pr \in models \X reasons |->
                       Cardinality({i \in counted :
                          <<d.rows[i]["Model"], d.rows[i][ReasonCode]>> = pr})]>>)

-----------------------------------------------------------------------------
(* Report assembly *)

\* df.to_excel(writer, sheet_name=..., index=False): header and cells; the
\* index is not written.
to_excel(df, sheet_name) == [sheet_name |-> sheet_name, columns |-> df.columns, rows |-> df.rows]

\* get_table_download_link: the markup it returns, "" for an empty frame;
\* the link carries the workbook of one sheet.
get_table_download_link(df, filename) ==
  IF empty(df) THEN [href |-> FALSE, download |-> "", sheets |-> <<>>]
  ELSE [href |-> TRUE, download |-> filename, sheets |-> <<to_excel(df, "Sheet1")>>]

\* Lines 246-251: the sheets written to the email workbook, in order.
EmailSheets(u, g) ==
  (IF ~empty(u) THEN <<to_excel(u, "USA")>> ELSE <<>>)
  \o (IF ~empty(g) THEN <<to_excel(g, "Germany")>> ELSE <<>>)

\* Leaving the `with pd.ExcelWriter(...)` block saves the workbook; the
\* openpyxl engine refuses to save a workbook no sheet was written to.
WriterRaises(sheets) == Len(sheets) = 0

-----------------------------------------------------------------------------
(* Uploaded sheets *)

Row(created, status, extid, reason, pstatus, material) ==
  [c \in Range(SheetCols) |->
     CASE c = CreatedOn -> created
       [] c = CombinedStatus -> status
       [] c = ExtDlvID -> extid
       [] c = ReasonCode -> reason
       [] c = ProcessStatus -> pstatus
       [] c = MaterialNumber -> material
       [] c = DeliveryNo -> <<"9">>
       [] OTHER -> NaN]

d2026_03_10 == <<"2","0","2","6","-","0","3","-","1","0">>
d2026_03_19 == <<"2","0","2","6","-","0","3","-","1","9">>
d2026_03_26 == <<"2","0","2","6","-","0","3","-","2","6">>
d2025_03_10 == <<"2","0","2","5","-","0","3","-","1","0">>
d2026_01_05 == <<"2","0","2","6","-","0","1","-","0","5">>
NotADate == <<"n","/","a">>

Open == <<"O","p","e","n">>
InGSSClassic == <<"i","n"," ">> \o GSS_Classic
Hold == <<"H","o","l","d">>
Closed == <<"C","l","o","s","e","d">>
COMPLETED == <<"C","O","M","P","L","E","T","E","D">>
Id7001 == <<"7","0","0","1">>
Id8002 == <<"8","0","0","2">>
Id07 == <<"0","7">>
MatLong == <<"A","B","C","D","E">>
MatShort == <<"A","B">>

\* The rows a sheet is built from.  On the run dates below they are aged
\* 11/17 days (03-19), 20/26 (03-10), 4/10 (03-26), 84/90 (01-05) and
\* 385/391 (the March of the year before); two have no usable date.  They
\* cover an id starting with 7, with another digit, with 0 before a 7, and
\* no id; a status with "GSS Classic", with the lower-case text, with
\* another text, and none; a reason that is text, empty, missing, and the
\* sentinel text itself.
RowValues ==
  { Row(d2026_03_19, Open, Id7001, Hold, Closed, MatLong),
    Row(d2026_03_19, NaN, Id7001, NaN, Open, MatShort),
    Row(d2025_03_10, Open, Id8002, EmptyStr, COMPLETED, MatLong),
    Row(d2026_03_26, NaN, Id07, Hold, Closed, MatShort),
    Row(d2026_01_05, InGSSClassic, Id7001, Hold, Open, MatLong),
    Row(d2026_01_05, InGSSClassic, NaN, NaN, Closed, NaN),
    Row(NotADate, Open, Id7001, Hold, Closed, MatLong),
    Row(d2026_03_10, GSS_classic, NaN, Hold, NaN, MatLong),
    Row(NaN, Open, Id8002, GSS_classic, Open, MatShort) }

Batches == UNION {[1..n -> RowValues] : n \in 0..MaxRows}

Workbook(cols, rws) == [kind |-> "workbook", columns |-> cols, rows |-> rws]

\* A sheet that lacks column c.
Without(c, rws) ==
  LET cols == SelectSeq(SheetCols, LAMBDA k : k # c)
  IN Workbook(cols, [i \in 1..Len(rws) |-> [k \in Range(cols) |-> rws[i][k]]])

\* What the uploader may hand to the script: conforming workbooks, sheets
\* that lack a column, and a file that is no workbook.
Files ==
  {Workbook(SheetCols, b) : b \in Batches}
  \cup {Without(c, b) : c \in {CreatedOn, CombinedStatus, ModelSeries},
                        b \in {x \in Batches : Len(x) = 1}}
  \cup {[kind |-> "unreadable", columns |-> <<>>, rows |-> <<>>]}

\* The dates a run may take place on.
Todays == {<<2026, 3, 30>>, <<2026, 4, 5>>}

Regions == {"USA", "Germany"}

-----------------------------------------------------------------------------
(* The script of app.py, one run per upload *)

VARIABLES
  uploaded_file,  \* the file in the uploader, NoFile before an upload
  today,          \* the date of the run
  pc,             \* [at, region]: where the script is
  success,        \* line 145: first component of process_data's result
  usa_df,         \* line 145: second component
  germany_df,     \* line 145: third component
  metrics,        \* per region, the KPI cards rendered
  charts,         \* the charts and tables the views rendered
  tables,         \* per region, the frames given to st.dataframe (raw data)
  links,          \* per region, the download links rendered
  messages,       \* st.warning / st.error / sidebar notices shown
  attachment,     \* the workbooks handed to send_email
  exception       \* the exception that ended the run, "" if none

vars == <<uploaded_file, today, pc, success, usa_df, germany_df, metrics,
          charts, tables, links, messages, attachment, exception>>

NoFile == [kind |-> "none", columns |-> <<>>, rows |-> <<>>]

At(label, region) == [at |-> label, region |-> region]

frame(r) == IF r = "USA" THEN usa_df ELSE germany_df

\* Where the script goes after a region's block.
AfterRegion(r) == IF r = "USA" THEN At("region", "Germany") ELSE At("email", "-")

\* Nothing computed, nothing rendered.
Blank ==
  /\ success = FALSE
  /\ usa_df = Unbound
  /\ germany_df = Unbound
  /\ metrics = [r \in Regions |-> <<>>]
  /\ charts = {}
  /\ tables = [r \in Regions |-> <<>>]
  /\ links = [r \in Regions |-> <<>>]
  /\ messages = {}
  /\ attachment = <<>>
  /\ exception = ""

Init ==
  /\ uploaded_file = NoFile
  /\ today = <<2026, 3, 30>>
  /\ pc = At("idle", "-")
  /\ Blank

\* The user puts a file in the uploader: the script runs from the top.
Upload ==
  /\ pc.at = "idle"
  /\ \E f \in Files, t \in Todays :
       /\ uploaded_file' = f
       /\ today' = t
  /\ pc' = At("process", "-")
  /\ success' = FALSE
  /\ usa_df' = Unbound
  /\ germany_df' = Unbound
  /\ metrics' = [r \in Regions |-> <<>>]
  /\ charts' = {}
  /\ tables' = [r \in Regions |-> <<>>]
  /\ links' = [r \in Regions |-> <<>>]
  /\ messages' = {}
  /\ attachment' = <<>>
  /\ exception' = ""

\* The user clears the uploader: the script runs with no file (lines
\* 270-271) and nothing of the last run remains on the page.
ClearFile ==
  /\ pc.at = "done"
  /\ uploaded_file' = NoFile
  /\ today' = <<2026, 3, 30>>
  /\ pc' = At("idle", "-")
  /\ success' = FALSE
  /\ usa_df' = Unbound
  /\ germany_df' = Unbound
  /\ metrics' = [r \in Regions |-> <<>>]
  /\ charts' = {}
  /\ tables' = [r \in Regions |-> <<>>]
  /\ links' = [r \in Regions |-> <<>>]
  /\ messages' = {}
  /\ attachment' = <<>>
  /\ exception' = ""

\* Line 145
ProcessData ==
  /\ pc.at = "process"
  /\ \E res \in process_data(uploaded_file, today) :
       /\ success' = res.success
       /\ usa_df' = res.usa_df
       /\ germany_df' = res.germany_df
       /\ pc' = IF res.success THEN At("region", "USA") ELSE At("error", "-")
       /\ messages' = IF res.success
                      THEN messages \cup {"File processed successfully!"}
                      ELSE messages
  /\ UNCHANGED <<uploaded_file, today, metrics, charts, tables, links,
                 attachment, exception>>

\* Line 269
ShowError ==
  /\ pc.at = "error"
  /\ messages' = messages \cup {"Error processing file: " \o usa_df.text}
  /\ pc' = At("done", "-")
  /\ UNCHANGED <<uploaded_file, today, success, usa_df, germany_df, metrics,
                 charts, tables, links, attachment, exception>>

\* Lines 151-152 / 196-197: the region has data
RegionHeader(r) ==
  /\ pc = At("region", r)
  /\ ~empty(frame(r))
  /\ pc' = At("kpi", r)
  /\ UNCHANGED <<uploaded_file, today, success, usa_df, germany_df, metrics,
                 charts, tables, links, messages, attachment, exception>>

\* Lines 189-190 / 234-235: the region has none
NoDataWarning(r) ==
  /\ pc = At("region", r)
  /\ empty(frame(r))
  /\ messages' = messages \cup {"No " \o r \o " data found in the uploaded file."}
  /\ pc' = AfterRegion(r)
  /\ UNCHANGED <<uploaded_file, today, success, usa_df, germany_df, metrics,
                 charts, tables, links, attachment, exception>>

\* A call view(frame(r)): the frame is left as the view leaves it, the
\* output is added to the page.
CallView(r, label, v, next) ==
  /\ pc = At(label, r)
  /\ usa_df' = IF r = "USA" THEN v.df ELSE usa_df
  /\ germany_df' = IF r = "Germany" THEN v.df ELSE germany_df
  /\ charts' = charts \cup {[region |-> r, view |-> label, data |-> v.out[i]]
                              : i \in 1..Len(v.out)}
  /\ pc' = At(next, r)
  /\ UNCHANGED <<uploaded_file, today, success, metrics, tables, links,
                 messages, attachment, exception>>

KpiCards(r) ==
  /\ pc = At("kpi", r)
  /\ LET v == create_kpi_cards(frame(r), today)
     IN /\ usa_df' = IF r = "USA" THEN v.df ELSE usa_df
        /\ germany_df' = IF r = "Germany" THEN v.df ELSE germany_df
        /\ metrics' = [metrics EXCEPT ![r] = @ \o v.out]
  /\ pc' = At("trend", r)
  /\ UNCHANGED <<uploaded_file, today, success, charts, tables, links,
                 messages, attachment, exception>>

AgingTrend(r) == CallView(r, "trend", create_aging_trend(frame(r)), "distribution")

AgingDistribution(r) ==
  CallView(r, "distribution", create_aging_distribution(frame(r)), "reason")

ReasonDistribution(r) ==
  CallView(r, "reason", create_reason_distribution(frame(r)), "donut")

StatusDonut(r) == CallView(r, "donut", create_status_donut(frame(r)), "top")

TopAgingTable(r) == CallView(r, "top", create_top_aging_table(frame(r)), "heatmap")

Heatmap(r) == CallView(r, "heatmap", create_heatmap(frame(r)), "raw")

\* Lines 182-188 / 227-233: the raw table and its download link
RawData(r) ==
  /\ pc = At("raw", r)
  /\ tables' = [tables EXCEPT ![r] = Append(@, [columns |-> frame(r).columns,
                                                 rows |-> frame(r).rows])]
  /\ links' = [links EXCEPT ![r] =
                 Append(@, get_table_download_link(frame(r), r \o "_NotDispatched.xlsx"))]
  /\ pc' = AfterRegion(r)
  /\ UNCHANGED <<uploaded_file, today, success, usa_df, germany_df, metrics,
                 charts, messages, attachment, exception>>

\* Line 243: the button was not pressed in this run
EmailIdle ==
  /\ pc.at = "email"
  /\ pc' = At("done", "-")
  /\ UNCHANGED <<uploaded_file, today, success, usa_df, germany_df, metrics,
                 charts, tables, links, messages, attachment, exception>>

\* Lines 266-267: pressed with no recipient
EmailNoRecipient ==
  /\ pc.at = "email"
  /\ messages' = messages \cup {"Please enter a recipient email address."}
  /\ pc' = At("done", "-")
  /\ UNCHANGED <<uploaded_file, today, success, usa_df, germany_df, metrics,
                 charts, tables, links, attachment, exception>>

\* Lines 244-265: pressed with a recipient.  The workbook is assembled
\* outside any try block, so an exception there ends the run; send_email
\* catches its own and reports them.
SendEmail ==
  /\ pc.at = "email"
  /\ LET sheets == EmailSheets(usa_df, germany_df)
     IN IF WriterRaises(sheets)
        THEN /\ exception' = "IndexError: At least one sheet must be visible"
             /\ UNCHANGED <<attachment, messages>>
        ELSE /\ attachment' = Append(attachment, sheets)
             /\ \E sent \in BOOLEAN :
                  messages' = messages \cup
                    {IF sent THEN "Email sent successfully!"
                     ELSE "Failed to send email"}
             /\ UNCHANGED exception
  /\ pc' = At("done", "-")
  /\ UNCHANGED <<uploaded_file, today, success, usa_df, germany_df, metrics,
                 charts, tables, links>>

Next ==
  \/ Upload
  \/ ClearFile
  \/ ProcessData
  \/ ShowError
  \/ \E r \in Regions :
       \/ RegionHeader(r)
       \/ NoDataWarning(r)
       \/ KpiCards(r)
       \/ AgingTrend(r)
       \/ AgingDistribution(r)
       \/ ReasonDistribution(r)
       \/ StatusDonut(r)
       \/ TopAgingTable(r)
       \/ Heatmap(r)
       \/ RawData(r)
  \/ EmailIdle
  \/ EmailNoRecipient
  \/ SendEmail

Spec == Init /\ [][Next]_vars

-----------------------------------------------------------------------------
(* Properties *)

\* The columns of a partition as prepare_df returns it.
ProjectedCols == <<"Sr No.">> \o required_cols

\* process_data has returned successfully.
Processed == success /\ pc.at \notin {"idle", "process"}

\* process_data has just returned successfully: usa_df and germany_df are
\* its result, untouched by the rest of the script.
Returned == success /\ pc = At("region", "USA")

Rows(r) == 1..Len(frame(r).rows)

\* The sheet row that row i of region r's partition was made from.
Src(r, i) == uploaded_file.rows[frame(r).origin[i]]

\* The age in days of sheet row i, read off the sheet; -1 when it has none.
SheetAge(i) ==
  LET c == to_datetime(uploaded_file.rows[i][CreatedOn])
  IN IF c = NaT THEN -1 ELSE toordinal(today) - toordinal(c)

\* The sheet rows that pass the aging filter.
RetainedInputs == {i \in 1..Len(uploaded_file.rows) : SheetAge(i) > 10}

\* C1: every record of either partition has ageDays > 10 strictly; a row
\* aged exactly 10 days, aged less, or with a missing or unparsable creation
\* date is in no partition.
C1_AgeAboveTen ==
  /\ Processed =>
       \A r \in Regions : \A i \in Rows(r) :
         /\ ~frame(r).rows[i]["Day"].nan
         /\ frame(r).rows[i]["Day"].days > 10
         /\ frame(r).rows[i][CreatedOn] # NaT
  /\ Returned =>
       \A r \in Regions : \A i \in Rows(r) :
         /\ Src(r, i)[CreatedOn] \notin {NaN, NotADate}
         /\ SheetAge(frame(r).origin[i]) = frame(r).rows[i]["Day"].days

C1_Witness ==
  /\ Returned
  /\ Len(usa_df.rows) > 0
  /\ \E i \in 1..Len(uploaded_file.rows) : SheetAge(i) = 10
  /\ \E i \in 1..Len(uploaded_file.rows) :
       uploaded_file.rows[i][CreatedOn] \in {NaN, NotADate}

\* C2: a row's region is USA exactly when its externalId as resolved by
\* clean_lipa, before the sentinel overwrite, starts with "7"; blanking the
\* externalId afterwards leaves the region as assigned.
C2_RegionFromPreOverwriteId ==
  Returned =>
    /\ \A r \in Regions : \A i \in Rows(r) :
         (r = "USA") <=> startswith(astype_str(clean_lipa(Src(r, i))), <<"7">>)
    /\ LET df == Classify(read_excel(uploaded_file), today)
       IN \A i \in 1..Len(df.rows) :
              /\ df.rows[i]["Region"] \in Regions
              /\ (df.rows[i]["Region"] = "USA")
                   <=> startswith(astype_str(clean_lipa(uploaded_file.rows[i])), <<"7">>)

C2_Witness ==
  /\ Returned
  /\ \E i \in Rows("USA") :
       /\ usa_df.rows[i][ExtDlvID] = EmptyStr
       /\ Src("USA", i)[ExtDlvID] = Id7001
  /\ \E i \in Rows("Germany") : Src("Germany", i)[ExtDlvID] = NaN
  /\ \E i \in Rows("Germany") : Src("Germany", i)[ExtDlvID] = Id7001

\* The source reason field is null or empty.
ReasonBlank(src) == src[ReasonCode] \in {NaN, EmptyStr}

\* The Combined Status holds the case-sensitive text "GSS Classic".
StatusIsGSS(src) ==
  CombinedStatus \in DOMAIN src /\ src[CombinedStatus] # NaN
  /\ Contains(src[CombinedStatus], GSS_Classic)

\* C3 as stated: a retained record whose Combined Status contains
\* "GSS Classic", or whose source reason is null or empty, has the empty
\* string as externalId.
C3_BlankedOnStatusOrReason ==
  Returned =>
    \A r \in Regions : \A i \in Rows(r) :
      (StatusIsGSS(Src(r, i)) \/ ReasonBlank(Src(r, i)))
        => frame(r).rows[i][ExtDlvID] = EmptyStr

\* C3 as amended: a retained record whose source reason is null or empty
\* has the empty string as externalId; one whose Combined Status contains
\* "GSS Classic" and whose reason is some other text keeps "GSS classic".
C3_BlankedOnReason ==
  Returned =>
    \A r \in Regions : \A i \in Rows(r) :
      /\ ReasonBlank(Src(r, i)) => frame(r).rows[i][ExtDlvID] = EmptyStr
      /\ (StatusIsGSS(Src(r, i)) /\ ~ReasonBlank(Src(r, i))
          /\ Src(r, i)[ReasonCode] # GSS_classic)
           => frame(r).rows[i][ExtDlvID] = GSS_classic

C3_Witness ==
  /\ Returned
  /\ \E r \in Regions : \E i \in Rows(r) :
       /\ StatusIsGSS(Src(r, i)) /\ ReasonBlank(Src(r, i))
       /\ frame(r).rows[i][ExtDlvID] = EmptyStr
  /\ \E r \in Regions : \E i \in Rows(r) :
       /\ ~StatusIsGSS(Src(r, i)) /\ ReasonBlank(Src(r, i))
       /\ frame(r).rows[i][ExtDlvID] = EmptyStr
  /\ \E r \in Regions : \E i \in Rows(r) :
       /\ StatusIsGSS(Src(r, i)) /\ ~ReasonBlank(Src(r, i))
       /\ frame(r).rows[i][ExtDlvID] = GSS_classic

\* C4: no view changes the partition it is given: the partition, the raw
\* table shown, the download and the emailed sheets all keep the projected
\* columns, without the bucket label or the model prefix.
C4_ViewsLeavePartition ==
  Processed =>
    /\ \A r \in Regions : frame(r).columns \in {<<>>, ProjectedCols}
    /\ \A r \in Regions : \A k \in 1..Len(tables[r]) :
         tables[r][k].columns = ProjectedCols
    /\ \A r \in Regions : \A k \in 1..Len(links[r]) :
         \A n \in 1..Len(links[r][k].sheets) :
           links[r][k].sheets[n].columns = ProjectedCols
    /\ \A k \in 1..Len(attachment) : \A n \in 1..Len(attachment[k]) :
         attachment[k][n].columns = ProjectedCols

\* C5: the "closed this month" count of a partition is the number of its
\* records created in the current month of the current year whose process
\* status contains "closed" or "completed", whatever the case.
C5_ClosedThisMonthAndYear ==
  Processed =>
    \A r \in Regions : \A k \in 1..Len(metrics[r]) :
      metrics[r][k].closed_this_month =
        Cardinality({i \in Rows(r) :
          /\ frame(r).rows[i][CreatedOn][2] = today[2]
          /\ frame(r).rows[i][CreatedOn][1] = today[1]
          /\ \/ Contains(Lower(astype_str(frame(r).rows[i][ProcessStatus])), closed)
             \/ Contains(Lower(astype_str(frame(r).rows[i][ProcessStatus])), completed)})

\* C6: the two partitions are disjoint and together hold exactly the
\* retained rows of the sheet, each once.
C6_PartitionsCoverRetained ==
  Returned =>
    LET u == Range(usa_df.origin)
        g == Range(germany_df.origin)
    IN /\ u \cap g = {}
       /\ u \cup g = RetainedInputs
       /\ Cardinality(u) = Len(usa_df.rows)
       /\ Cardinality(g) = Len(germany_df.rows)
       /\ Len(usa_df.rows) + Len(germany_df.rows) = Cardinality(RetainedInputs)

C6_Witness ==
  /\ Returned
  /\ Len(usa_df.rows) > 0
  /\ Len(germany_df.rows) > 0
  /\ Len(uploaded_file.rows) > Len(usa_df.rows) + Len(germany_df.rows)

\* C7: in a partition of N records the Sr No. values are 1..N in row order
\* and ageDays never increases as Sr No. increases.
C7_NumberedByDescendingAge ==
  Processed =>
    \A r \in Regions :
      /\ \A i \in Rows(r) : frame(r).rows[i]["Sr No."] = i
      /\ \A i, j \in Rows(r) :
           i < j => frame(r).rows[i]["Day"].days >= frame(r).rows[j]["Day"].days

C7_Witness ==
  /\ Processed
  /\ \E r \in Regions :
       /\ Len(frame(r).rows) >= 2
       /\ frame(r).origin[1] > frame(r).origin[2]
       /\ frame(r).rows[1]["Day"].days > frame(r).rows[2]["Day"].days

\* The sheet is a workbook with every column the pipeline reads.
Conforming ==
  uploaded_file.kind = "workbook"
  /\ Range(SheetCols) \subseteq Range(uploaded_file.columns)

\* C8: process_data returns both partitions, or one message and nothing
\* else, and then nothing of the dashboard is rendered; a sheet with all its
\* columns never fails, whatever its cells hold.
C8_AllOrNothing ==
  pc.at \notin {"idle", "process"} =>
    /\ \/ /\ success
          /\ usa_df.kind = "DataFrame"
          /\ germany_df.kind = "DataFrame"
       \/ /\ ~success
          /\ usa_df.kind = "str"
          /\ germany_df = NoneValue
          /\ charts = {} /\ attachment = <<>>
          /\ \A r \in Regions : metrics[r] = <<>> /\ tables[r] = <<>> /\ links[r] = <<>>
    /\ Conforming => success
    /\ Returned => RetainedInputs = Range(usa_df.origin) \cup Range(germany_df.origin)

C8_Witness ==
  /\ Returned
  /\ Len(uploaded_file.rows) >= 2
  /\ \E i \in 1..Len(uploaded_file.rows) : uploaded_file.rows[i][CreatedOn] = NotADate
  /\ \E i \in 1..Len(uploaded_file.rows) :
       uploaded_file.rows[i][CreatedOn] # NotADate
       /\ uploaded_file.rows[i][ExtDlvID] = NaN
       /\ i \in Range(germany_df.origin)

\* C9: records of one partition with equal ageDays keep the order they had
\* in the sheet.
C9_StableSort ==
  Returned =>
    \A r \in Regions : \A i, j \in Rows(r) :
      (i < j /\ frame(r).rows[i]["Day"] = frame(r).rows[j]["Day"])
        => frame(r).origin[i] < frame(r).origin[j]

\* C10: a region with no retained record gets an explicit empty frame, no
\* view output, no download link and no sheet in the emailed workbook, and
\* the run raises no error, the email assembly included.
C10_EmptyRegionNoError ==
  Processed =>
    /\ exception = ""
    /\ \A r \in Regions :
         Len(frame(r).rows) = 0 =>
           /\ frame(r) = EmptyDataFrame
           /\ metrics[r] = <<>> /\ tables[r] = <<>> /\ links[r] = <<>>
           /\ \A c \in charts : c.region # r
           /\ \A k \in 1..Len(attachment) : \A n \in 1..Len(attachment[k]) :
                attachment[k][n].sheet_name # r

====
